---------------------------- MODULE Spec2Model ----------------------------
(***************************************************************************)
(* The deliberation orchestrator of AI-Council: the App component's        *)
(* session handlers (runExperiment, loop, finalizeSynthesis,               *)
(* resetExperiment) and the gateway service functions they call.           *)
(*                                                                         *)
(* A text is a sequence of chunks (strings).  A chunk is a piece of the    *)
(* JavaScript string; " " is the whitespace chunk, and the termination     *)
(* token is the two-chunk sequence <<"[TERMINATE_", "DELIBERATION]">>, so  *)
(* that a text can hold the token, several tokens, or the halves of a      *)
(* token around another one.                                               *)
(*                                                                         *)
(* Every accepted runExperiment is one asynchronous activation (a "run"):  *)
(* it suspends at each await and a step of the model is the synchronous    *)
(* code between two awaits.  The closures of a run (instanceCount,         *)
(* activeInstances, loop, finalizeSynthesis) are those of the render in    *)
(* which runExperiment was invoked; the refs are shared by all runs.       *)
(***************************************************************************)
EXTENDS Integers, Sequences, FiniteSets, TLC

(***************************************************************************)
(* Bounds of the exploration.                                              *)
(***************************************************************************)
\* accepted starts in one behaviour
MaxStarts == 2
\* disturbances in one behaviour: a reset, a settings change, a refused
\* start, a service call whose first gateway call fails, returns nothing or
\* asks to terminate, a callback of a run that a reset has superseded (its
\* gateway call may as well never return)
MaxEvents == 2
\* the instances whose model the explored behaviours reassign
MaxConfigId == 1

(***************************************************************************)
(* Program constants.                                                      *)
(***************************************************************************)
NumPotentialInstances == 50
DefaultInstanceCount == 6
MinInstanceCount == 2
MaxInstanceCount == 20
MinTurns == 20

FallbackModel == "gemini-flash-lite-latest"
GEMINI_MODELS ==
    << "gemini-3-flash-preview", "gemini-3-pro-preview", "gemini-2.5-pro",
       "gemini-flash-latest", "gemini-flash-lite-latest", "gemini-2.0-flash-exp" >>

terminateSignal == << "[TERMINATE_", "DELIBERATION]" >>

null == "null"
None == << >>
Some(v) == << v >>

Max(a, b) == IF a > b THEN a ELSE b

(***************************************************************************)
(* String functions of the JavaScript runtime, on texts.                   *)
(***************************************************************************)
OccursAt(s, pat, i) ==
    /\ i >= 1
    /\ i + Len(pat) - 1 <= Len(s)
    /\ \A k \in 1..Len(pat) : s[i + k - 1] = pat[k]

\* String.prototype.indexOf, 1-based; 0 when pat does not occur
indexOf(s, pat) ==
    IF \E i \in 1..Len(s) : OccursAt(s, pat, i)
    THEN CHOOSE i \in 1..Len(s) :
            OccursAt(s, pat, i) /\ \A j \in 1..(i - 1) : ~OccursAt(s, pat, j)
    ELSE 0

includes(s, pat) == indexOf(s, pat) # 0

\* String.prototype.replace with a string pattern: the first occurrence only
replace(s, pat, rep) ==
    LET i == indexOf(s, pat)
    IN  IF i = 0 THEN s
        ELSE SubSeq(s, 1, i - 1) \o rep \o SubSeq(s, i + Len(pat), Len(s))

RECURSIVE trimStart(_)
trimStart(s) ==
    IF s # << >> /\ Head(s) = " " THEN trimStart(Tail(s)) ELSE s

RECURSIVE trimEnd(_)
trimEnd(s) ==
    IF s # << >> /\ s[Len(s)] = " " THEN trimEnd(SubSeq(s, 1, Len(s) - 1)) ELSE s

\* a trim that removes nothing
trim_nothing(s) == s

trim(s) == trimEnd(trimStart(s))

\* String.prototype.toLowerCase on the chunks the model types
toLowerCase(s) ==
    [k \in 1..Len(s) |-> IF s[k] = "5090 Giveaway" THEN "5090 giveaway" ELSE s[k]]

(***************************************************************************)
(* The roster.                                                             *)
(***************************************************************************)
InstanceId(i) == ToString(i)
InstanceName(i) ==
    IF i < 10 THEN "INSTANCE_0" \o ToString(i) ELSE "INSTANCE_" \o ToString(i)

\* the instance at 1-based position i of ALL_POTENTIAL_INSTANCES
ALL_POTENTIAL_INSTANCES(i) ==
    [id |-> InstanceId(i), name |-> InstanceName(i), model |-> FallbackModel]

\* A list of instances is kept as the reassignments made to
\* ALL_POTENTIAL_INSTANCES: a function from the positions whose model was
\* changed to their model.  The AIInstance at position i of such a list:
AIInstance(models, i) ==
    IF i \in DOMAIN models
    THEN [ALL_POTENTIAL_INSTANCES(i) EXCEPT !.model = models[i]]
    ELSE ALL_POTENTIAL_INSTANCES(i)

\* prev.map(inst => inst.id === id ? { ...inst, model: modelId } : inst)
WithModel(models, i, modelId) ==
    LET changed == IF modelId = ALL_POTENTIAL_INSTANCES(i).model
                   THEN DOMAIN models \ { i }
                   ELSE DOMAIN models \cup { i }
    IN  [j \in changed |-> IF j = i THEN modelId ELSE models[j]]

\* list.slice(0, n)
slice(models, n) == [j \in DOMAIN models \cap 1..n |-> models[j]]

(***************************************************************************)
(* Gateway responses: generateContent resolves with a text or rejects.     *)
(***************************************************************************)
Rejected == [ok |-> FALSE, text |-> << >>]
Resolved(t) == [ok |-> TRUE, text |-> t]
NoCall == [ok |-> FALSE, text |-> << "not called" >>]

Faulty(resp) == ~resp.ok \/ resp.text = << >>

PlainText == << "a" >>
TerminatingText == << "a", " " >> \o terminateSignal
\* a text in which the agent wrote the signal twice
TwiceTerminatingText == << "a", " " >> \o terminateSignal \o << " " >> \o terminateSignal
TurnResponses ==
    { Rejected, Resolved(<< >>), Resolved(PlainText), Resolved(TerminatingText),
      Resolved(TwiceTerminatingText) }
RefineResponses == { Rejected, Resolved(<< >>), Resolved(<< " ", "r", " " >>) }
SynthesisResponses == { Rejected, Resolved(<< >>), Resolved(<< "FINAL VERDICT:", "v" >>) }

(***************************************************************************)
(* The service module.  The repository holds three variants of it; the     *)
(* build links one.                                                        *)
(***************************************************************************)
Services == { "base", "priority", "single" }

\* promptEngineerTopic: the same in the three variants
\* a refinement that gives the empty topic when its call gives nothing
promptEngineerTopic_emptyOnFailure(rawTopic, resp) ==
    IF resp.ok /\ trim(resp.text) # << >> THEN trim(resp.text) ELSE << >>

promptEngineerTopic(rawTopic, resp) ==
    IF resp.ok /\ trim(resp.text) # << >> THEN trim(resp.text) ELSE rawTopic

\* whether getAIResponse retries on the fallback model after a rejection
\* a retry made whatever the model of the instance
RetriesOnFallback_always(svc, instance) == svc # "base"

RetriesOnFallback(svc, instance) ==
    svc # "base" /\ instance.model # FallbackModel

getAIResponse_base(instance, primary) ==
    IF primary.ok
    THEN [threw |-> FALSE, calls |-> 1,
          text |-> IF primary.text # << >> THEN primary.text ELSE << "Error: Null response." >>]
    ELSE [threw |-> FALSE, calls |-> 1, text |-> << "[CONNECTION ERROR]" >>]

getAIResponse_priority(instance, primary, fallback) ==
    IF primary.ok
    THEN [threw |-> FALSE, calls |-> 1,
          text |-> IF primary.text # << >> THEN primary.text
                   ELSE << "No analytical response generated." >>]
    ELSE IF instance.model # FallbackModel
         THEN IF fallback.ok
              THEN [threw |-> FALSE, calls |-> 2,
                    text |-> (IF fallback.text # << >> THEN fallback.text
                              ELSE << "Node fallback failed." >>)
                             \o << " (Fallback Node Protocol)" >>]
              ELSE [threw |-> FALSE, calls |-> 2,
                    text |-> << "Protocol failure on node: ", instance.name >>]
         ELSE [threw |-> FALSE, calls |-> 1,
               text |-> << "Error: Communication link severed for node ", instance.name >>]

getAIResponse_single(instance, primary, fallback) ==
    IF primary.ok
    THEN [threw |-> FALSE, calls |-> 1,
          text |-> IF primary.text # << >> THEN primary.text ELSE << "Error: Null response." >>]
    ELSE IF instance.model # FallbackModel
         THEN IF fallback.ok
              THEN [threw |-> FALSE, calls |-> 2,
                    text |-> IF fallback.text # << >> THEN fallback.text
                             ELSE << "Fallback error." >>]
              ELSE [threw |-> FALSE, calls |-> 2,
                    text |-> << "Critical system failure on this node." >>]
         ELSE [threw |-> FALSE, calls |-> 1, text |-> << "Node offline." >>]

\* a getAIResponse that lets the rejection escape when no call succeeded
getAIResponse_rethrows(svc, instance, primary, fallback) ==
    IF ~primary.ok /\ ~fallback.ok
    THEN [threw |-> TRUE, calls |-> 1, text |-> << >>]
    ELSE CASE svc = "base" -> getAIResponse_base(instance, primary)
           [] svc = "priority" -> getAIResponse_priority(instance, primary, fallback)
           [] svc = "single" -> getAIResponse_single(instance, primary, fallback)

getAIResponse(svc, instance, primary, fallback) ==
    CASE svc = "base" -> getAIResponse_base(instance, primary)
      [] svc = "priority" -> getAIResponse_priority(instance, primary, fallback)
      [] svc = "single" -> getAIResponse_single(instance, primary, fallback)

\* list.join(sep)
RECURSIVE join(_, _)
join(list, sep) ==
    IF list = << >> THEN << >>
    ELSE IF Len(list) = 1 THEN list[1]
    ELSE list[1] \o << sep >> \o join(Tail(list), sep)

\* the text getAIResponse puts under "History:" for an empty history
OpeningThesis(svc) ==
    IF svc = "base"
    THEN << "The discussion is just beginning. Provide an opening thesis." >>
    ELSE << "The deliberation session is just beginning. Provide an opening thesis for the objective." >>

\* a history text without the author names
historyText_contentOnly(svc, hist) ==
    IF Len(hist) > 0
    THEN join([k \in 1..Len(hist) |-> hist[k].content], "\n")
    ELSE OpeningThesis(svc)

\* history.map(h => `${h.authorName}: ${h.content}`).join('\n'), or the
\* opening instruction
historyText(svc, hist) ==
    IF Len(hist) > 0
    THEN join([k \in 1..Len(hist) |-> << hist[k].authorName, ": " >> \o hist[k].content],
              "\n")
    ELSE OpeningThesis(svc)

\* the object an item of a suggestions array stands for
JSON_object(item) ==
    IF item = "{Science}"
    THEN [category |-> "Science", text |-> "A problem of science."]
    ELSE [category |-> "Ethics", text |-> "A problem of ethics."]

\* JSON.parse on the texts of SuggestionResponses: an array is "[", its
\* items and "]"; anything else makes it throw
JSON_parse(t) ==
    IF Len(t) >= 2 /\ t[1] = "[" /\ t[Len(t)] = "]"
    THEN [threw |-> FALSE, value |-> [k \in 1..(Len(t) - 2) |-> JSON_object(t[k + 1])]]
    ELSE [threw |-> TRUE, value |-> << >>]

\* what the provider may answer to the suggestions prompt
SuggestionResponses ==
    { Rejected, Resolved(<< >>), Resolved(<< "[", "]" >>),
      Resolved(<< "[", "{Science}" >>), Resolved(<< "[", "{Science}", "{Ethics}", "]" >>) }

\* the built-in lists of the three variants
fallbacks_base ==
    << [category |-> "Logistics", text |-> "Optimize a global renewable energy grid strategy."],
       [category |-> "Science", text |-> "Determine the most efficient path to Mars colonization."] >>
fallbacks_priority ==
    << [category |-> "Logistics", text |-> "Optimize global supply chain distribution for clean water accessibility."],
       [category |-> "Energy", text |-> "Evaluate scalability of modular fusion reactor clusters for urban power."],
       [category |-> "Economy", text |-> "Predict impact of hyper-automation on universal basic resource distribution."],
       [category |-> "Ethics", text |-> "Formulate universal standards for synthetic consciousness autonomy."] >>
fallbacks_single ==
    << [category |-> "Logistics", text |-> "Design an automated global supply chain for medical essentials."],
       [category |-> "Energy", text |-> "Evaluate the feasibility of a thorium-based modular nuclear grid."],
       [category |-> "Economy", text |-> "Develop a post-inflationary model for digital decentralized currencies."],
       [category |-> "Ethics", text |-> "Establish universal protocols for neural-interface privacy rights."] >>

\* JSON.parse(response.text || "[]")
ParsedSuggestions(resp) ==
    JSON_parse(IF resp.text # << >> THEN resp.text ELSE << "[", "]" >>)

getSuggestions_base(resp) ==
    IF ~resp.ok \/ ParsedSuggestions(resp).threw THEN fallbacks_base
    ELSE IF Len(ParsedSuggestions(resp).value) > 0 THEN ParsedSuggestions(resp).value
    ELSE fallbacks_base

getSuggestions_priority(resp) ==
    IF ~resp.ok \/ ParsedSuggestions(resp).threw THEN fallbacks_priority
    ELSE IF Len(ParsedSuggestions(resp).value) > 0 THEN ParsedSuggestions(resp).value
    ELSE fallbacks_priority

getSuggestions_single(resp) ==
    IF ~resp.ok \/ ParsedSuggestions(resp).threw THEN fallbacks_single
    ELSE ParsedSuggestions(resp).value

getSuggestions(svc, resp) ==
    CASE svc = "base" -> getSuggestions_base(resp)
      [] svc = "priority" -> getSuggestions_priority(resp)
      [] svc = "single" -> getSuggestions_single(resp)

\* fetchSuggestions has not got its answer yet
NotFetched == [done |-> FALSE, data |-> << >>]

\* the candidates of the priority variant's getFinalSynthesis
SYNTHESIS_PRIORITY_LIST ==
    << "gemini-3-pro-preview", "gemini-3-flash-preview", "gemini-flash-lite-latest" >>

getFinalSynthesis_base(resps) ==
    IF resps[1].ok
    THEN [threw |-> FALSE, calls |-> 1,
          text |-> IF resps[1].text # << >> THEN resps[1].text ELSE << "Synthesis failed." >>]
    ELSE [threw |-> FALSE, calls |-> 1, text |-> << "Error generating final synthesis." >>]

\* the for loop over the priority list: the first candidate that resolves
\* with a non-empty text wins; resps[k] is the response of candidate k
RECURSIVE AttemptInOrder(_, _)
AttemptInOrder(resps, k) ==
    IF k > Len(SYNTHESIS_PRIORITY_LIST)
    THEN [threw |-> TRUE, calls |-> k - 1, text |-> << >>]
    ELSE IF resps[k].ok /\ resps[k].text # << >>
         THEN [threw |-> FALSE, calls |-> k, text |-> resps[k].text]
         ELSE AttemptInOrder(resps, k + 1)

\* a synthesis that takes whatever the first candidate answers
getFinalSynthesis_priority_firstOnly(resps) ==
    IF resps[1].ok
    THEN [threw |-> FALSE, calls |-> 1, text |-> resps[1].text]
    ELSE [threw |-> TRUE, calls |-> 1, text |-> << >>]

getFinalSynthesis_priority(resps) == AttemptInOrder(resps, 1)

getFinalSynthesis_single(resps) ==
    IF resps[1].ok
    THEN [threw |-> FALSE, calls |-> 1,
          text |-> IF resps[1].text # << >> THEN resps[1].text ELSE << "Synthesis failed." >>]
    ELSE [threw |-> FALSE, calls |-> 1,
          text |-> << "The Council has reached a stalemate. Synthesis engine unavailable." >>]

getFinalSynthesis(svc, resps) ==
    CASE svc = "base" -> getFinalSynthesis_base(resps)
      [] svc = "priority" -> getFinalSynthesis_priority(resps)
      [] svc = "single" -> getFinalSynthesis_single(resps)

\* what the gateway would answer to each call one getFinalSynthesis can
\* make: one call, or for the priority variant one per candidate of the list
\* (resps[k] is the answer candidate k gives if it is called)
Unusable(resp) == ~resp.ok \/ resp.text = << >>
SynthesisInputs(svc) ==
    IF svc # "priority"
    THEN { << r >> : r \in SynthesisResponses }
    ELSE [1..Len(SYNTHESIS_PRIORITY_LIST) -> SynthesisResponses]

(***************************************************************************)
(* The state of the App component.                                         *)
(***************************************************************************)
VARIABLES
    service,            \* the service variant linked (fixed)
    topicInput,         \* useState('')
    topic,              \* useState('')
    history,            \* useState<DialogueEntry[]>([])
    status,             \* useState<DeliberationStatus>('idle')
    activeInstanceId,   \* useState<string | null>(null)
    verdict,            \* useState<string | null>(null)
    instanceCount,      \* useState(6)
    instances,          \* useState(ALL_POTENTIAL_INSTANCES)
    isEngineering,      \* useState(false)
    isRunningRef,       \* useRef(false)
    currentHistoryRef,  \* useRef<DialogueEntry[]>([])
    turnCountRef,       \* useRef(0)
    suggestions,        \* useState<{ category; text }[]>([])
    fetched,            \* what fetchSuggestions got from getSuggestions, once it has
    optimizedTopicRef,  \* useRef('')
    runs,               \* the activations of runExperiment, in order of start
    epoch,              \* history variable: resets so far
    events              \* history variable: disturbances so far

vars == << service, suggestions, fetched, topicInput, topic, history, status, activeInstanceId, verdict,
           instanceCount, instances, isEngineering, isRunningRef, currentHistoryRef,
           turnCountRef, optimizedTopicRef, runs, epoch, events >>

appState == << topicInput, topic, history, status, activeInstanceId, verdict,
               isEngineering, isRunningRef, currentHistoryRef, turnCountRef,
               optimizedTopicRef >>

Easter == << "5090 giveaway" >>
TopicInputs == { << >>, << " " >>, << " ", "t" >>, << " ", "5090 Giveaway" >> }
\* the council sizes the explored behaviours set, within the slider's range
CouncilSizes == { MinInstanceCount, 4, 11, MaxInstanceCount }
\* the models the explored behaviours assign
ModelChoices == { GEMINI_MODELS[2], FallbackModel }

activeInstances == slice(instances, instanceCount)

Init ==
    /\ service \in Services
    /\ topicInput = << >>
    /\ topic = << >>
    /\ history = << >>
    /\ status = "idle"
    /\ activeInstanceId = null
    /\ verdict = None
    /\ instanceCount = DefaultInstanceCount
    /\ instances = << >>
    /\ isEngineering = FALSE
    /\ isRunningRef = FALSE
    /\ currentHistoryRef = << >>
    /\ turnCountRef = 0
    /\ optimizedTopicRef = << >>
    /\ runs = << >>
    /\ epoch = 0
    /\ suggestions = << >>
    /\ fetched = NotFetched
    /\ events = 0

Runs == DOMAIN runs
\* a reset has been invoked since run p started
Superseded(p) == runs[p].epoch < epoch

\* the disturbances a callback of run p counts for
Cost(p, unusual) == IF Superseded(p) \/ unusual THEN 1 ELSE 0

(***************************************************************************)
(* The settings.                                                           *)
(***************************************************************************)
\* fetchSuggestions of the mount effect, after the await of getSuggestions
fetchSuggestions(resp) ==
    /\ ~fetched.done
    /\ events < MaxEvents
    /\ events' = events + 1
    /\ LET data == getSuggestions(service, resp)
       IN  /\ fetched' = [done |-> TRUE, data |-> data]
           /\ suggestions' = IF Len(data) > 0 THEN data ELSE suggestions
    /\ UNCHANGED << service, instanceCount, instances, runs, epoch >>
    /\ UNCHANGED appState

\* onChange of the council size slider
SetInstanceCount(n) ==
    /\ n # instanceCount
    /\ events < MaxEvents
    /\ events' = events + 1
    /\ instanceCount' = n
    /\ UNCHANGED << service, suggestions, fetched, instances, runs, epoch >>
    /\ UNCHANGED appState

handleInstanceModelChange(i, modelId) ==
    /\ i <= instanceCount
    /\ AIInstance(instances, i).model # modelId
    /\ events < MaxEvents
    /\ events' = events + 1
    /\ instances' = WithModel(instances, i, modelId)
    /\ UNCHANGED << service, suggestions, fetched, instanceCount, runs, epoch >>
    /\ UNCHANGED appState

(***************************************************************************)
(* The session handlers.                                                   *)
(***************************************************************************)
\* a cap without its floor of 20 turns
MAX_TURNS_noFloor(n) == n * 2

MAX_TURNS(n) == Max(n * 2, MinTurns)

\* a rotation over the whole roster instead of the council
SelectInstance_wholeRoster(turnCount, n) == (turnCount % NumPotentialInstances) + 1

\* activeInstances[turnCountRef.current % instanceCount], as a 1-based position
SelectInstance(turnCount, n) == (turnCount % n) + 1

\* a termination test on the stripped text
TerminateRequested_postStrip(text) ==
    includes(trim(replace(text, terminateSignal, << >>)), terminateSignal)

\* text.includes(terminateSignal), on the raw text
TerminateRequested(text) == includes(text, terminateSignal)

\* text.replace(terminateSignal, "").trim()
cleanResponse(text) == trim(replace(text, terminateSignal, << >>))

\* an activation that calls loop() without awaiting promptEngineerTopic
NewRun_skipsRefinement(input) ==
    [ pc |-> "turn",
      capturedTopic |-> input,
      instanceCount |-> instanceCount,
      activeInstances |-> activeInstances,
      instance |-> 1,
      epoch |-> epoch,
      lastText |-> << >>, lastFailed |-> FALSE, exitAt |-> -1,
      synthCalls |-> 0, synthLen |-> -1, synthIn |-> 0,
      lastPrimary |-> NoCall, lastFallback |-> NoCall, lastCalls |-> 0,
      lastSynthesis |-> << >>, refined |-> None, callTopic |-> << >>,
      refineResp |-> NoCall, callHistLen |-> 0, ownTurns |-> 0,
      assignedAtCall |-> << >>, callHistoryText |-> << >> ]

NewRun(input) ==
    [ pc |-> "engineering",
      capturedTopic |-> input,
      instanceCount |-> instanceCount,
      activeInstances |-> activeInstances,
      instance |-> 0,
      epoch |-> epoch,
      lastText |-> << >>, lastFailed |-> FALSE, exitAt |-> -1,
      synthCalls |-> 0, synthLen |-> -1, synthIn |-> 0,
      lastPrimary |-> NoCall, lastFallback |-> NoCall, lastCalls |-> 0,
      lastSynthesis |-> << >>, refined |-> None, callTopic |-> << >>,
      refineResp |-> NoCall, callHistLen |-> 0, ownTurns |-> 0,
      assignedAtCall |-> << >>, callHistoryText |-> << >> ]

\* what is remembered of a finished run once the next one starts
Archived(r) ==
    IF r.pc \in { "done", "failed" }
    THEN [ pc |-> "archived", capturedTopic |-> << >>, instanceCount |-> r.instanceCount,
           activeInstances |-> << >>, instance |-> 0, epoch |-> r.epoch,
           lastText |-> << >>, lastFailed |-> FALSE, exitAt |-> -1,
           synthCalls |-> r.synthCalls, synthLen |-> -1, synthIn |-> r.synthIn,
           lastPrimary |-> NoCall, lastFallback |-> NoCall, lastCalls |-> 0,
           lastSynthesis |-> r.lastSynthesis, refined |-> None, callTopic |-> << >>,
      refineResp |-> NoCall, callHistLen |-> 0, ownTurns |-> 0,
      assignedAtCall |-> << >>, callHistoryText |-> << >> ]
    ELSE r

\* the user types input in the box (setTopicInput) and submits it
runExperiment(input) ==
    IF isRunningRef \/ trim(input) = << >>
    THEN /\ events < MaxEvents
         /\ events' = events + 1
         /\ topicInput' = input
         /\ UNCHANGED << service, suggestions, fetched, topic, history, status, activeInstanceId, verdict,
                         instanceCount, instances, isEngineering, isRunningRef,
                         currentHistoryRef, turnCountRef, optimizedTopicRef, runs,
                         epoch >>
    ELSE IF toLowerCase(trim(input)) = Easter
    THEN /\ topicInput' = << >>
         /\ UNCHANGED << service, suggestions, fetched, topic, history, status, activeInstanceId, verdict,
                         instanceCount, instances, isEngineering, isRunningRef,
                         currentHistoryRef, turnCountRef, optimizedTopicRef, runs,
                         epoch, events >>
    ELSE /\ Len(runs) < MaxStarts
         /\ isRunningRef' = TRUE
         /\ verdict' = None
         /\ history' = << >>
         /\ currentHistoryRef' = << >>
         /\ turnCountRef' = 0
         /\ status' = "running"
         /\ topic' = input
         /\ topicInput' = << >>
         /\ isEngineering' = TRUE
         /\ runs' = Append([p \in Runs |-> Archived(runs[p])], NewRun(input))
         /\ UNCHANGED << service, suggestions, fetched, activeInstanceId, instanceCount, instances,
                         optimizedTopicRef, epoch, events >>

\* finalizeSynthesis up to its await; hist is currentHistoryRef.current then
FinalizeSynthesisStart(p, r, hist) ==
    /\ status' = "running"
    /\ activeInstanceId' = "SYNT"
    /\ runs' = [runs EXCEPT ![p] =
                  [r EXCEPT !.pc = "synthesis", !.synthCalls = @ + 1,
                            !.synthLen = Len(hist), !.synthIn = Len(runs),
                            !.callHistLen = 0, !.ownTurns = 0,
                            !.assignedAtCall = << >>]]

\* a loop that returns at the cap without invoking finalizeSynthesis
LoopHead_noSynthesisAtCap(p, r, hist, tc) ==
    IF tc < MAX_TURNS(r.instanceCount)
    THEN LET i == SelectInstance(tc, r.instanceCount)
         IN  /\ activeInstanceId' = AIInstance(r.activeInstances, i).id
             /\ status' = status
             /\ runs' = [runs EXCEPT ![p] =
                           [r EXCEPT !.pc = "turn", !.instance = i, !.lastText = << >>,
                                     !.lastFailed = FALSE, !.lastPrimary = NoCall,
                                     !.lastFallback = NoCall, !.lastCalls = 0,
                                     !.callHistLen = Len(hist),
                                     !.assignedAtCall = instances,
                                     !.callHistoryText = historyText(service, hist)]]
    ELSE /\ UNCHANGED << status, activeInstanceId >>
         /\ runs' = [runs EXCEPT ![p] = [r EXCEPT !.pc = "done", !.exitAt = tc]]

\* a loop that reads the council size now set instead of the one it started with
LoopHead_currentCouncilSize(p, r, hist, tc) ==
    IF tc < MAX_TURNS(instanceCount)
    THEN LET i == SelectInstance(tc, instanceCount)
         IN  /\ activeInstanceId' = AIInstance(r.activeInstances, i).id
             /\ status' = status
             /\ runs' = [runs EXCEPT ![p] =
                           [r EXCEPT !.pc = "turn", !.instance = i, !.lastText = << >>,
                                     !.lastFailed = FALSE, !.lastPrimary = NoCall,
                                     !.lastFallback = NoCall, !.lastCalls = 0,
                                     !.callHistLen = Len(hist),
                                     !.assignedAtCall = instances,
                                     !.callHistoryText = historyText(service, hist)]]
    ELSE FinalizeSynthesisStart(p, [r EXCEPT !.exitAt = tc], hist)

\* the while test, then the body up to the await of getAIResponse, or the
\* exit to finalizeSynthesis; tc is turnCountRef.current then
LoopHead(p, r, hist, tc) ==
    IF tc < MAX_TURNS(r.instanceCount)
    THEN LET i == SelectInstance(tc, r.instanceCount)
         IN  /\ activeInstanceId' = AIInstance(r.activeInstances, i).id
             /\ status' = status
             /\ runs' = [runs EXCEPT ![p] =
                           [r EXCEPT !.pc = "turn", !.instance = i, !.lastText = << >>,
                                     !.lastFailed = FALSE, !.lastPrimary = NoCall,
                                     !.lastFallback = NoCall, !.lastCalls = 0,
                                     !.callHistLen = Len(hist),
                                     !.assignedAtCall = instances,
                                     !.callHistoryText = historyText(service, hist)]]
    ELSE FinalizeSynthesisStart(p, [r EXCEPT !.exitAt = tc], hist)

\* runExperiment after the await of promptEngineerTopic, into loop()
EngineeringDone(p, resp) ==
    /\ runs[p].pc = "engineering"
    /\ events + Cost(p, Faulty(resp)) <= MaxEvents
    /\ events' = events + Cost(p, Faulty(resp))
    /\ optimizedTopicRef' = promptEngineerTopic(runs[p].capturedTopic, resp)
    /\ isEngineering' = FALSE
    /\ LoopHead(p, [runs[p] EXCEPT !.refined = Some(optimizedTopicRef'),
                                   !.callTopic = optimizedTopicRef',
                                   !.refineResp = resp],
                currentHistoryRef, turnCountRef)
    /\ UNCHANGED << service, suggestions, fetched, topicInput, topic, history, verdict, instanceCount,
                    instances, isRunningRef, currentHistoryRef, turnCountRef, epoch >>

\* the entry a turn appends
NewEntry(instance, text) ==
    [authorId |-> instance.id, authorName |-> instance.name, content |-> cleanResponse(text)]

\* loop after the await of getAIResponse, up to the next await
TurnDone(p, primary, fallback) ==
    /\ runs[p].pc = "turn"
    /\ LET r == runs[p]
           instance == AIInstance(r.activeInstances, r.instance)
           res == getAIResponse(service, instance, primary, fallback)
       IN  /\ (fallback # NoCall) <=> (~primary.ok /\ RetriesOnFallback(service, instance))
           /\ events + Cost(p, primary # Resolved(PlainText)) <= MaxEvents
           /\ events' = events + Cost(p, primary # Resolved(PlainText))
           /\ IF res.threw
              THEN /\ status' = "idle"
                   /\ isRunningRef' = FALSE
                   /\ runs' = [runs EXCEPT ![p] =
                                 [r EXCEPT !.pc = "failed",
                                           !.lastFailed = ~primary.ok /\ ~fallback.ok]]
                   /\ UNCHANGED << history, currentHistoryRef, turnCountRef,
                                   activeInstanceId >>
              ELSE LET hist == Append(currentHistoryRef, NewEntry(instance, res.text))
                       r2 == [r EXCEPT !.lastText = res.text,
                                       !.lastFailed = ~primary.ok /\ ~fallback.ok,
                                       !.lastPrimary = primary,
                                       !.lastFallback = fallback,
                                       !.lastCalls = res.calls,
                                       !.callHistLen = 0, !.ownTurns = @ + 1,
                                       !.callHistoryText = << >>]
                   IN  /\ currentHistoryRef' = hist
                       /\ history' = hist
                       /\ turnCountRef' = turnCountRef + 1
                       /\ isRunningRef' = isRunningRef
                       /\ IF TerminateRequested(res.text)
                          THEN FinalizeSynthesisStart(
                                   p, [r2 EXCEPT !.exitAt = turnCountRef + 1,
                                                 !.callTopic = optimizedTopicRef], hist)
                          ELSE /\ runs' = [runs EXCEPT ![p] = [r2 EXCEPT !.pc = "delay"]]
                               /\ UNCHANGED << status, activeInstanceId >>
    /\ UNCHANGED << service, suggestions, fetched, topicInput, topic, verdict, instanceCount, instances,
                    isEngineering, optimizedTopicRef, epoch >>

\* a catch of loop that leaves the re-entrancy guard set
TurnRaised_keepsGuard(p) ==
    /\ runs[p].pc = "turn"
    /\ events + Cost(p, TRUE) <= MaxEvents
    /\ events' = events + Cost(p, TRUE)
    /\ status' = "idle"
    /\ runs' = [runs EXCEPT ![p] =
                  [@ EXCEPT !.pc = "failed", !.callHistLen = 0, !.ownTurns = 0,
                            !.assignedAtCall = << >>, !.callHistoryText = << >>]]
    /\ UNCHANGED << service, suggestions, fetched, topicInput, topic, history, verdict,
                    instanceCount, instances, isEngineering, isRunningRef,
                    currentHistoryRef, turnCountRef, activeInstanceId,
                    optimizedTopicRef, epoch >>

\* loop when the awaited getAIResponse rejects, its statements ahead of its
\* try having raised: the catch of loop
TurnRaised(p) ==
    /\ runs[p].pc = "turn"
    /\ events + Cost(p, TRUE) <= MaxEvents
    /\ events' = events + Cost(p, TRUE)
    /\ status' = "idle"
    /\ isRunningRef' = FALSE
    /\ runs' = [runs EXCEPT ![p] =
                  [@ EXCEPT !.pc = "failed", !.callHistLen = 0, !.ownTurns = 0,
                            !.assignedAtCall = << >>, !.callHistoryText = << >>]]
    /\ UNCHANGED << service, suggestions, fetched, topicInput, topic, history, verdict,
                    instanceCount, instances, isEngineering, currentHistoryRef,
                    turnCountRef, activeInstanceId, optimizedTopicRef, epoch >>

\* a loop that drops the oldest entry after the delay
DelayDone_dropsOldestEntry(p) ==
    /\ runs[p].pc = "delay"
    /\ events + Cost(p, FALSE) <= MaxEvents
    /\ events' = events + Cost(p, FALSE)
    /\ currentHistoryRef' = IF currentHistoryRef = << >> THEN << >> ELSE Tail(currentHistoryRef)
    /\ history' = currentHistoryRef'
    /\ LoopHead(p, [runs[p] EXCEPT !.callTopic = optimizedTopicRef],
                currentHistoryRef', turnCountRef)
    /\ UNCHANGED << service, suggestions, fetched, topicInput, topic, verdict, instanceCount,
                    instances, isEngineering, isRunningRef,
                    turnCountRef, optimizedTopicRef, epoch >>

\* loop after the await of the 600 ms timer
DelayDone(p) ==
    /\ runs[p].pc = "delay"
    /\ events + Cost(p, FALSE) <= MaxEvents
    /\ events' = events + Cost(p, FALSE)
    /\ LoopHead(p, [runs[p] EXCEPT !.callTopic = optimizedTopicRef],
                currentHistoryRef, turnCountRef)
    /\ UNCHANGED << service, suggestions, fetched, topicInput, topic, history, verdict, instanceCount,
                    instances, isEngineering, isRunningRef, currentHistoryRef,
                    turnCountRef, optimizedTopicRef, epoch >>

\* a finalizeSynthesis whose catch neither sets a verdict nor concludes
SynthesisDone_failureNotConcluded(p, resps) ==
    /\ runs[p].pc = "synthesis"
    /\ events + Cost(p, Faulty(resps[1])) <= MaxEvents
    /\ events' = events + Cost(p, Faulty(resps[1]))
    /\ LET res == getFinalSynthesis(service, resps)
       IN  IF res.threw
           THEN UNCHANGED << verdict, status >>
           ELSE verdict' = Some(res.text) /\ status' = "concluded"
    /\ activeInstanceId' = null
    /\ isRunningRef' = FALSE
    /\ runs' = [runs EXCEPT ![p] =
                  [@ EXCEPT !.pc = "done",
                            !.lastSynthesis =
                                SubSeq(resps, 1, getFinalSynthesis(service, resps).calls)]]
    /\ UNCHANGED << service, suggestions, fetched, topicInput, topic, history, instanceCount, instances,
                    isEngineering, currentHistoryRef, turnCountRef, optimizedTopicRef,
                    epoch >>

\* finalizeSynthesis after the await of getFinalSynthesis
SynthesisDone(p, resps) ==
    /\ runs[p].pc = "synthesis"
    /\ events + Cost(p, Faulty(resps[1])) <= MaxEvents
    /\ events' = events + Cost(p, Faulty(resps[1]))
    /\ LET res == getFinalSynthesis(service, resps)
       IN  verdict' = IF res.threw
                      THEN Some(<< "Critical error during synthesis phase." >>)
                      ELSE Some(res.text)
    /\ status' = "concluded"
    /\ activeInstanceId' = null
    /\ isRunningRef' = FALSE
    /\ runs' = [runs EXCEPT ![p] =
                  [@ EXCEPT !.pc = "done",
                            !.lastSynthesis =
                                SubSeq(resps, 1, getFinalSynthesis(service, resps).calls)]]
    /\ UNCHANGED << service, suggestions, fetched, topicInput, topic, history, instanceCount, instances,
                    isEngineering, currentHistoryRef, turnCountRef, optimizedTopicRef,
                    epoch >>

\* a reset that leaves the transcript ref as it is
resetExperiment_keepsTranscriptRef ==
    /\ events < MaxEvents
    /\ events' = events + 1
    /\ epoch' = epoch + 1
    /\ history' = << >>
    /\ turnCountRef' = 0
    /\ verdict' = None
    /\ status' = "idle"
    /\ topic' = << >>
    /\ activeInstanceId' = null
    /\ isRunningRef' = FALSE
    /\ runs' = [p \in DOMAIN runs |->
                  [runs[p] EXCEPT !.callHistLen = 0, !.ownTurns = 0,
                                  !.assignedAtCall = << >>,
                                  !.callHistoryText = << >>]]
    /\ UNCHANGED << service, suggestions, fetched, topicInput, instanceCount, instances, isEngineering,
                    optimizedTopicRef, currentHistoryRef >>

\* a reset that leaves the turn counter as it is
resetExperiment_keepsTurnCount ==
    /\ events < MaxEvents
    /\ events' = events + 1
    /\ epoch' = epoch + 1
    /\ history' = << >>
    /\ currentHistoryRef' = << >>
    /\ verdict' = None
    /\ status' = "idle"
    /\ topic' = << >>
    /\ activeInstanceId' = null
    /\ isRunningRef' = FALSE
    /\ runs' = [p \in DOMAIN runs |->
                  [runs[p] EXCEPT !.callHistLen = 0, !.ownTurns = 0,
                                  !.assignedAtCall = << >>,
                                  !.callHistoryText = << >>]]
    /\ UNCHANGED << service, suggestions, fetched, topicInput, instanceCount, instances, isEngineering,
                    optimizedTopicRef, turnCountRef >>

resetExperiment ==
    /\ events < MaxEvents
    /\ events' = events + 1
    /\ epoch' = epoch + 1
    /\ history' = << >>
    /\ currentHistoryRef' = << >>
    /\ turnCountRef' = 0
    /\ verdict' = None
    /\ status' = "idle"
    /\ topic' = << >>
    /\ activeInstanceId' = null
    /\ isRunningRef' = FALSE
    /\ runs' = [p \in DOMAIN runs |->
                  [runs[p] EXCEPT !.callHistLen = 0, !.ownTurns = 0,
                                  !.assignedAtCall = << >>,
                                  !.callHistoryText = << >>]]
    /\ UNCHANGED << service, suggestions, fetched, topicInput, instanceCount, instances, isEngineering,
                    optimizedTopicRef >>

Next ==
    \/ \E resp \in SuggestionResponses : fetchSuggestions(resp)
    \/ \E n \in CouncilSizes : SetInstanceCount(n)
    \/ \E i \in 1..MaxConfigId, m \in ModelChoices : handleInstanceModelChange(i, m)
    \/ \E input \in TopicInputs : runExperiment(input)
    \/ \E p \in Runs, resp \in RefineResponses : EngineeringDone(p, resp)
    \/ \E p \in Runs, primary \in TurnResponses, fallback \in TurnResponses \cup { NoCall } :
          TurnDone(p, primary, fallback)
    \/ \E p \in Runs : TurnRaised(p)
    \/ \E p \in Runs : DelayDone(p)
    \/ \E p \in Runs, resps \in SynthesisInputs(service) : SynthesisDone(p, resps)
    \/ resetExperiment

Spec == Init /\ [][Next]_vars

\* The behaviours in which no reset is issued and every gateway call and
\* every timer sooner or later returns.
NextNoReset ==
    \/ \E resp \in SuggestionResponses : fetchSuggestions(resp)
    \/ \E n \in CouncilSizes : SetInstanceCount(n)
    \/ \E i \in 1..MaxConfigId, m \in ModelChoices : handleInstanceModelChange(i, m)
    \/ \E input \in TopicInputs : runExperiment(input)
    \/ \E p \in Runs, resp \in RefineResponses : EngineeringDone(p, resp)
    \/ \E p \in Runs, primary \in TurnResponses, fallback \in TurnResponses \cup { NoCall } :
          TurnDone(p, primary, fallback)
    \/ \E p \in Runs : DelayDone(p)
    \/ \E p \in Runs, resps \in SynthesisInputs(service) : SynthesisDone(p, resps)

CallsReturn ==
    /\ WF_vars(\E p \in Runs, resp \in RefineResponses : EngineeringDone(p, resp))
    /\ WF_vars(\E p \in Runs, primary \in TurnResponses,
                  fallback \in TurnResponses \cup { NoCall } : TurnDone(p, primary, fallback))
    /\ WF_vars(\E p \in Runs : DelayDone(p))
    /\ WF_vars(\E p \in Runs, resps \in SynthesisInputs(service) : SynthesisDone(p, resps))

LiveSpec == Init /\ [][NextNoReset]_vars /\ CallsReturn

(***************************************************************************)
(* Properties.                                                             *)
(***************************************************************************)
\* a callback of run p runs in this step
Fired(p) ==
    /\ runs[p].pc \in { "engineering", "turn", "delay", "synthesis" }
    /\ runs'[p].pc # runs[p].pc

\* the turn call of run p returns in this step (it did not raise)
TurnReturned(p) ==
    /\ Fired(p)
    /\ runs[p].pc = "turn"
    /\ runs'[p].pc # "failed"

\* the run started last, when no reset has been invoked since
CurrentRun == Len(runs)
HasCurrentRun == runs # << >> /\ ~Superseded(CurrentRun)

TurnCap(n) == IF 2 * n > 20 THEN 2 * n ELSE 20

Last(h) == h[Len(h)]

\* C1: the turn counter never exceeds max(2n, 20), n the council size of the
\* session in progress.
C1_TurnCounterWithinCap ==
    HasCurrentRun => turnCountRef <= TurnCap(runs[CurrentRun].instanceCount)

\* C2: the agent of the turn that starts when the turn counter is t is
\* roster[t mod n], it is the agent shown as active, and the entry that turn
\* appends when its call returns carries its id.
C2_RoundRobin ==
    [][\A p \in Runs :
        LET n == runs[p].instanceCount
            expected == InstanceId((turnCountRef % n) + 1)
        IN  /\ (Fired(p) /\ runs'[p].pc = "turn") =>
                   /\ AIInstance(runs'[p].activeInstances, runs'[p].instance).id = expected
                   /\ activeInstanceId' = expected
            /\ TurnReturned(p) =>
                   /\ Len(currentHistoryRef') = Len(currentHistoryRef) + 1
                   /\ Last(currentHistoryRef').authorId = InstanceId(runs[p].instance)
      ]_vars

C2_Witness ==
    \E p \in Runs :
        /\ runs[p].pc = "turn"
        /\ ~Superseded(p)
        /\ turnCountRef = runs[p].instanceCount + 1
        /\ activeInstanceId = "2"
        /\ Len(currentHistoryRef) = turnCountRef
        /\ Last(currentHistoryRef).authorId = "1"

\* C3: a turn whose call returns a raw text with the token appends its entry
\* and goes to synthesis, which is followed by no further turn; a turn whose
\* raw text does not hold it goes on, and the loop is left without the token
\* only when the turn counter has reached the cap.
C3_TerminationOnRawText ==
    [][\A p \in Runs :
        /\ TurnReturned(p) =>
               /\ Len(currentHistoryRef') = Len(currentHistoryRef) + 1
               /\ IF includes(runs'[p].lastText, terminateSignal)
                  THEN runs'[p].pc = "synthesis"
                  ELSE runs'[p].pc = "delay"
        /\ (Fired(p) /\ runs[p].pc \in { "engineering", "delay" }
                     /\ runs'[p].pc = "synthesis") =>
               turnCountRef >= TurnCap(runs[p].instanceCount)
        /\ (Fired(p) /\ runs[p].pc = "synthesis") => runs'[p].pc = "done"
      ]_vars

C3_Witness ==
    \E p \in Runs :
        /\ runs[p].pc = "synthesis"
        /\ includes(runs[p].lastText, terminateSignal)
        /\ runs[p].exitAt = 3
        /\ Len(currentHistoryRef) = 3
        /\ ~includes(Last(currentHistoryRef).content, terminateSignal)

\* C4: the step of resetExperiment leaves status idle, the transcript empty,
\* the verdict null and the turn counter 0, whatever the phase it is taken in.
C4_ResetPostcondition ==
    [][epoch' # epoch =>
          /\ status' = "idle"
          /\ history' = << >>
          /\ currentHistoryRef' = << >>
          /\ verdict' = None
          /\ turnCountRef' = 0
      ]_vars

C4_Witness ==
    /\ epoch = 1
    /\ \E p \in Runs : runs[p].pc = "turn" /\ Superseded(p)
    /\ status = "idle"
    /\ history = << >>
    /\ currentHistoryRef = << >>
    /\ verdict = None
    /\ turnCountRef = 0

\* C5: the callback of a call that was outstanding when reset was invoked
\* appends no entry, does not advance the turn counter, sets no verdict, does
\* not change the status and issues no further turn call.
C5_SupersededResultsDiscarded ==
    [][\A p \in Runs :
        (Superseded(p) /\ Fired(p)) =>
            /\ UNCHANGED << currentHistoryRef, history, turnCountRef, verdict, status >>
            /\ runs'[p].pc # "turn"
      ]_vars

\* C6: there are never two agent-turn calls outstanding.
C6_OneTurnCallOutstanding ==
    Cardinality({ p \in Runs : runs[p].pc = "turn" }) <= 1

\* C7: no start is accepted while the status is running.
C7_NoStartWhileRunning ==
    [][status = "running" => Len(runs') = Len(runs)]_vars

\* the runs that invoked finalizeSynthesis while session s (the one begun by
\* the s-th accepted start) was the latest
SynthesisCallers(s) == { p \in Runs : runs[p].synthIn = s }

\* C8: in every session synthesis is invoked at most once, by the session's
\* own loop, and not while that loop is still executing turns.
C8_SynthesisOncePerSession ==
    \A s \in Runs :
        /\ Cardinality(SynthesisCallers(s)) <= 1
        /\ SynthesisCallers(s) \subseteq { s }
        /\ runs[s].pc \in { "engineering", "turn", "delay" } => SynthesisCallers(s) = { }

\* C9: with no reset and no termination token, synthesis receives a
\* transcript of exactly max(2n, 20) entries.
C9_ExactlyCapTurns ==
    \A p \in Runs :
        (/\ runs[p].pc \in { "synthesis", "done" }
         /\ epoch = 0
         /\ ~includes(runs[p].lastText, terminateSignal)) =>
            /\ runs[p].synthLen = TurnCap(runs[p].instanceCount)
            /\ Len(currentHistoryRef) = TurnCap(runs[p].instanceCount)
            /\ turnCountRef = TurnCap(runs[p].instanceCount)

C9_Witness ==
    \E p \in Runs :
        /\ runs[p].pc = "synthesis"
        /\ runs[p].instanceCount = 4
        /\ runs[p].synthLen = 20
        /\ Len(currentHistoryRef) = 20
        /\ \A k \in 1..20 : currentHistoryRef[k].content = PlainText
        /\ epoch = 0

\* the texts getAIResponse returns for a node that could not be reached
FailureMarkers(name) ==
    { << "[CONNECTION ERROR]" >>,
      << "Protocol failure on node: ", name >>,
      << "Error: Communication link severed for node ", name >>,
      << "Critical system failure on this node." >>,
      << "Node offline." >> }

\* C10: a turn whose primary call fails, and whose fallback call fails or is
\* not made, appends a failure marker as its entry, advances the turn counter
\* and leaves the session running; the loop then goes on to its next turn.
C10_NodeFailureNeverAborts ==
    [][\A p \in Runs :
        /\ (Fired(p) /\ runs[p].pc = "turn" /\ runs'[p].lastFailed) =>
               /\ runs'[p].lastText \in FailureMarkers(InstanceName(runs[p].instance))
               /\ currentHistoryRef' =
                     Append(currentHistoryRef,
                            [authorId |-> InstanceId(runs[p].instance),
                             authorName |-> InstanceName(runs[p].instance),
                             content |-> runs'[p].lastText])
               /\ turnCountRef' = turnCountRef + 1
               /\ runs'[p].pc = "delay"
               /\ UNCHANGED << status, isRunningRef >>
        /\ (Fired(p) /\ runs[p].pc = "delay" /\ runs[p].lastFailed
                     /\ turnCountRef < TurnCap(runs[p].instanceCount)) =>
               runs'[p].pc = "turn"
      ]_vars

C10_Witness ==
    \E p \in Runs :
        /\ runs[p].pc = "turn"
        /\ ~Superseded(p)
        /\ status = "running"
        /\ turnCountRef = 1
        /\ currentHistoryRef =
              << [authorId |-> "1", authorName |-> "INSTANCE_01",
                  content |-> << "Protocol failure on node: ", "INSTANCE_01" >>] >>

\* C11: a turn of an agent on a non-fallback model whose primary call fails
\* and whose retry on the fallback model returns a text appends that text,
\* stripped of the token and trimmed, and the entry is no failure marker.
C11_FallbackTextIsEntry ==
    [][\A p \in Runs :
        (/\ Fired(p) /\ runs[p].pc = "turn"
         /\ AIInstance(runs[p].activeInstances, runs[p].instance).model # FallbackModel
         /\ ~runs'[p].lastPrimary.ok
         /\ runs'[p].lastFallback.ok
         /\ runs'[p].lastFallback.text # << >>) =>
            /\ Last(currentHistoryRef').content = cleanResponse(runs'[p].lastFallback.text)
            /\ Last(currentHistoryRef').content
                  \notin FailureMarkers(InstanceName(runs[p].instance))
      ]_vars

\* C12: a turn of an agent on the fallback model whose call fails makes no
\* second gateway call, and every turn that returns has made one or two
\* gateway calls.
C12_FallbackMonotonicity ==
    [][\A p \in Runs :
        TurnReturned(p) =>
            /\ runs'[p].lastCalls \in { 1, 2 }
            /\ (runs'[p].lastCalls = 2) <=> (runs'[p].lastFallback # NoCall)
            /\ (/\ AIInstance(runs[p].activeInstances, runs[p].instance).model = FallbackModel
                /\ ~runs'[p].lastPrimary.ok) =>
                   runs'[p].lastCalls = 1 /\ runs'[p].lastFallback = NoCall
      ]_vars

C12_Witness ==
    \E p \in Runs :
        /\ runs[p].pc = "delay"
        /\ service = "priority"
        /\ AIInstance(runs[p].activeInstances, runs[p].instance).model = FallbackModel
        /\ runs[p].lastPrimary = Rejected
        /\ runs[p].lastFallback = NoCall
        /\ runs[p].lastCalls = 1
        /\ runs[p].lastText = << "Error: Communication link severed for node ", "INSTANCE_01" >>

\* C13: between any two steps the transcript, in the ref and in the state,
\* is as long as the turn counter.
C13_TranscriptLengthIsTurnCounter ==
    /\ Len(currentHistoryRef) = turnCountRef
    /\ Len(history) = turnCountRef

C13_Witness ==
    /\ epoch = 1
    /\ Len(runs) = 2
    /\ runs[1].pc = "delay"
    /\ runs[2].pc = "delay"
    /\ turnCountRef = 2
    /\ Len(currentHistoryRef) = 2
    /\ Len(history) = 2

\* the verdicts set when no synthesis call gave a text
SynthesisFailureVerdicts ==
    { << "Synthesis failed." >>,
      << "Error generating final synthesis." >>,
      << "The Council has reached a stalemate. Synthesis engine unavailable." >>,
      << "Critical error during synthesis phase." >> }

\* every gateway call made by the synthesis of run r gave no text
SynthesisFailed(r) ==
    /\ r.lastSynthesis # << >>
    /\ \A k \in DOMAIN r.lastSynthesis : Unusable(r.lastSynthesis[k])

\* C14: when the synthesis call, or every candidate tried, fails, the step
\* that handles it sets status concluded and a failure verdict, clears the
\* active-agent pointer and releases isRunningRef.
C14_SynthesisFailureNotFatal ==
    [][\A p \in Runs :
        (Fired(p) /\ runs[p].pc = "synthesis" /\ SynthesisFailed(runs'[p])) =>
            /\ runs'[p].pc = "done"
            /\ status' = "concluded"
            /\ verdict' # None
            /\ verdict'[1] \in SynthesisFailureVerdicts
            /\ activeInstanceId' = null
            /\ isRunningRef' = FALSE
      ]_vars

\* a start accepted after a session whose synthesis failed
C14_Witness ==
    /\ Len(runs) = 2
    /\ epoch = 0
    /\ service = "priority"
    /\ runs[1].pc = "archived"
    /\ SynthesisFailed(runs[1])
    /\ Len(runs[1].lastSynthesis) = Len(SYNTHESIS_PRIORITY_LIST)
    /\ runs[2].pc = "engineering"
    /\ status = "running"

C16_NoVerdictBeforeLoopEnds ==
    (HasCurrentRun /\ runs[CurrentRun].pc \in { "engineering", "turn", "delay" }) =>
        verdict = None

\* C17: the step of an accepted start leaves the transcript empty, the turn
\* counter 0, the verdict null and the status running, with the refinement
\* call outstanding and no turn call issued; a session issues a turn call
\* only from the completion of its refinement call or of a turn's delay.
C17_StartClearsThenRefines ==
    [][/\ Len(runs') > Len(runs) =>
            /\ history' = << >>
            /\ currentHistoryRef' = << >>
            /\ turnCountRef' = 0
            /\ verdict' = None
            /\ status' = "running"
            /\ isEngineering'
            /\ runs'[Len(runs')].pc = "engineering"
            /\ runs'[Len(runs')].instance = 0
       /\ \A p \in Runs :
            /\ runs[p].pc = "engineering" => runs[p].instance = 0
            /\ (runs'[p].pc = "turn" /\ runs[p].pc # "turn") =>
                   /\ runs[p].pc \in { "engineering", "delay" }
                   /\ runs[p].pc = "engineering" => ~isEngineering'
      ]_vars

\* a start accepted from concluded, its refinement done and its first turn
\* call outstanding
C17_Witness ==
    /\ Len(runs) = 2
    /\ epoch = 0
    /\ runs[1].pc = "archived"
    /\ runs[2].pc = "turn"
    /\ runs[2].instance = 1
    /\ history = << >>
    /\ turnCountRef = 0
    /\ verdict = None
    /\ status = "running"

\* C18: the topic passed to every turn call and to the synthesis call of a
\* session is the refined topic that session wrote.
C18_CallsReceiveOwnRefinedTopic ==
    \A p \in Runs :
        runs[p].pc \in { "turn", "synthesis" } =>
            /\ runs[p].refined # None
            /\ runs[p].callTopic = runs[p].refined[1]

\* C19: when the refinement call fails or returns no text, the topic written
\* is the raw topic, nothing of the session is undone and the loop is entered
\* with that topic: it issues a turn call (the status unchanged) unless the
\* turn counter is already at the cap.
C19_RefinementFailureUsesRawTopic ==
    [][\A p \in Runs :
        (Fired(p) /\ runs[p].pc = "engineering" /\ Faulty(runs'[p].refineResp)) =>
            /\ optimizedTopicRef' = runs[p].capturedTopic
            /\ runs'[p].refined = Some(runs[p].capturedTopic)
            /\ runs'[p].callTopic = runs[p].capturedTopic
            /\ UNCHANGED << isRunningRef, verdict, currentHistoryRef, turnCountRef >>
            /\ IF turnCountRef < TurnCap(runs[p].instanceCount)
               THEN runs'[p].pc = "turn" /\ status' = status
               ELSE runs'[p].pc = "synthesis"
      ]_vars

C19_Witness ==
    \E p \in Runs :
        /\ runs[p].pc = "turn"
        /\ ~Superseded(p)
        /\ runs[p].refineResp = Rejected
        /\ runs[p].capturedTopic = << " ", "t" >>
        /\ optimizedTopicRef = << " ", "t" >>
        /\ runs[p].callTopic = << " ", "t" >>
        /\ turnCountRef = 1
        /\ status = "running"

\* a text that is empty or whitespace only
Blank(t) == \A k \in 1..Len(t) : t[k] = " "

\* C20: every session created has a topic that is not blank, and a start
\* that creates no session leaves status, transcript, turn counter, verdict
\* and isRunningRef as they were and issues no call.
C20_BlankTopicCreatesNoSession ==
    [][/\ Len(runs') > Len(runs) =>
            /\ ~Blank(runs'[Len(runs')].capturedTopic)
            /\ ~Blank(topic')
       /\ (Len(runs') = Len(runs) /\ topicInput' # topicInput) =>
            UNCHANGED << status, history, currentHistoryRef, turnCountRef, verdict,
                         isRunningRef, isEngineering, activeInstanceId,
                         optimizedTopicRef, runs >>
      ]_vars

\* a whitespace-only topic was submitted in the initial state
C20_Witness ==
    /\ topicInput = << " " >>
    /\ events = 1
    /\ status = "idle"
    /\ ~isRunningRef
    /\ runs = << >>
    /\ history = << >>
    /\ turnCountRef = 0
    /\ verdict = None

\* a is an initial part of b
IsPrefix(a, b) == Len(a) <= Len(b) /\ SubSeq(b, 1, Len(a)) = a

\* C21: a step that is neither a reset nor an accepted start leaves every
\* entry of the transcript in place: the transcript before is a prefix of
\* the transcript after.
C21_TranscriptAppendOnly ==
    [][(epoch' = epoch /\ Len(runs') = Len(runs)) =>
          /\ IsPrefix(currentHistoryRef, currentHistoryRef')
          /\ IsPrefix(history, history')
      ]_vars

C21_Witness ==
    \E p \in Runs :
        /\ runs[p].pc = "synthesis"
        /\ ~Superseded(p)
        /\ Len(history) = TurnCap(runs[p].instanceCount)
        /\ history = currentHistoryRef
        /\ \E k \in 1..Len(history) : history[k].content # PlainText

\* C22: the content a turn stores holds no occurrence of the token, and
\* stripping it again returns it unchanged.
C22_StripExactAndIdempotent ==
    [][\A p \in Runs :
        TurnReturned(p) =>
            LET content == Last(currentHistoryRef').content
            IN  /\ content = cleanResponse(runs'[p].lastText)
                /\ ~includes(content, terminateSignal)
                /\ cleanResponse(content) = content
      ]_vars

\* C23: in the priority variant the calls made are those to the candidates
\* in list order up to the first that returns a text; every candidate called
\* before it failed or returned nothing, its text is the verdict, and when
\* every candidate of the list was called in vain synthesis has failed.
C23_PriorityListInOrder ==
    [][\A p \in Runs :
        (Fired(p) /\ runs[p].pc = "synthesis" /\ service = "priority") =>
            LET called == runs'[p].lastSynthesis
                n == Len(called)
            IN  /\ n \in 1..Len(SYNTHESIS_PRIORITY_LIST)
                /\ \A k \in 1..(n - 1) : Unusable(called[k])
                /\ IF Unusable(called[n])
                   THEN /\ n = Len(SYNTHESIS_PRIORITY_LIST)
                        /\ verdict' = Some(<< "Critical error during synthesis phase." >>)
                   ELSE verdict' = Some(called[n].text)
      ]_vars

\* the first candidate rejected, the second returned nothing, the third
\* gave the verdict
C23_Witness ==
    \E p \in Runs :
        /\ service = "priority"
        /\ runs[p].pc = "done"
        /\ runs[p].lastSynthesis =
              << Rejected, Resolved(<< >>), Resolved(<< "FINAL VERDICT:", "v" >>) >>
        /\ verdict = Some(<< "FINAL VERDICT:", "v" >>)
        /\ status = "concluded"

\* C24: while a turn call of the session in progress is outstanding the
\* active-agent pointer is the id of its agent, and the pointer is null
\* whenever the status is idle or concluded.
C24_ActivePointerFollowsCall ==
    /\ \A p \in Runs :
          (runs[p].pc = "turn" /\ ~Superseded(p)) =>
              activeInstanceId = AIInstance(runs[p].activeInstances, runs[p].instance).id
    /\ status \in { "idle", "concluded" } => activeInstanceId = null

\* C25: the status is idle, running or concluded; it leaves idle for running
\* only by an accepted start, becomes concluded only from running when the
\* synthesis of the session in progress completes, and becomes idle only by
\* a reset.
C25_StatusTransitions ==
    [][/\ status' \in { "idle", "running", "concluded" }
       /\ (status = "idle" /\ status' # "idle") =>
              status' = "running" /\ Len(runs') > Len(runs)
       /\ (status # "concluded" /\ status' = "concluded") =>
              /\ status = "running"
              /\ \E p \in Runs :
                    Fired(p) /\ runs[p].pc = "synthesis" /\ ~Superseded(p)
       /\ (status # "idle" /\ status' = "idle") => epoch' # epoch
      ]_vars

\* C26: the history passed to a turn call of the session in progress holds
\* one entry for each turn that session has completed and nothing else (it is
\* empty for its first turn): it is as long as the number of those turns
\* (callHistLen and ownTurns count within the session; a reset clears them).
C26_HistoryPassedIsOwnTurns ==
    \A p \in Runs :
        (runs[p].pc = "turn" /\ ~Superseded(p)) =>
            runs[p].callHistLen = runs[p].ownTurns

\* C27: when the model assigned to an agent was changed after the previous
\* turn call of the session in progress was issued, the next turn call of
\* that agent is made with the model now assigned (assignedAtCall is the
\* assignment read when the previous call was issued).
C27_ModelChangeUsedAtNextTurn ==
    [][\A p \in Runs :
          (/\ runs[p].pc = "delay" /\ runs'[p].pc = "turn" /\ ~Superseded(p)
           /\ AIInstance(runs[p].assignedAtCall, runs'[p].instance).model
                  # AIInstance(instances, runs'[p].instance).model) =>
              AIInstance(runs'[p].activeInstances, runs'[p].instance).model
                  = AIInstance(instances, runs'[p].instance).model
      ]_vars

\* the lines of a text: LinesFrom(t, i, cur) is the lines of t from chunk i
\* on, cur being the part of the first of them read so far
RECURSIVE LinesFrom(_, _, _)
LinesFrom(t, i, cur) ==
    IF i > Len(t) THEN << cur >>
    ELSE IF t[i] = "\n" THEN << cur >> \o LinesFrom(t, i + 1, << >>)
    ELSE LinesFrom(t, i + 1, Append(cur, t[i]))
Lines(t) == LinesFrom(t, 1, << >>)

\* C28: the history section of the prompt of a turn call is the fixed
\* opening instruction when the transcript passed is empty, and otherwise
\* has one line per entry, in transcript order, each the author's name,
\* ": " and the entry's content.
C28_HistorySectionRendersTranscript ==
    [][\A p \in Runs :
          (runs[p].pc # "turn" /\ runs'[p].pc = "turn") =>
              LET t == runs'[p].callHistoryText
                  h == currentHistoryRef'
              IN  IF h = << >>
                  THEN t \in { << "The discussion is just beginning. Provide an opening thesis." >>,
                               << "The deliberation session is just beginning. Provide an opening thesis for the objective." >> }
                  ELSE Lines(t) = [k \in 1..Len(h) |->
                                     << h[k].authorName, ": " >> \o h[k].content]
      ]_vars

\* a turn call is outstanding whose history section lists three entries
C28_Witness ==
    \E p \in Runs :
        /\ runs[p].pc = "turn"
        /\ Len(currentHistoryRef) = 3
        /\ Len(Lines(runs[p].callHistoryText)) = 3
        /\ Lines(runs[p].callHistoryText)[3][1] = currentHistoryRef[3].authorName

\* C29: what getSuggestions returned to fetchSuggestions is never an empty
\* list.
C29_SuggestionsNeverEmpty ==
    fetched.done => fetched.data # << >>

\* C30: isRunningRef is set if and only if the status is running, and no
\* start is accepted in a state whose status is running.
C30_GuardFlagIffRunning ==
    [][/\ isRunningRef' <=> (status' = "running")
       /\ Len(runs') > Len(runs) => status # "running"
      ]_vars

\* C31: in every reachable state the verdict is set if and only if the
\* status is concluded.
C31_VerdictIffConcluded ==
    (verdict # None) <=> (status = "concluded")

\* C32: the refinement flag isEngineering is true only while the status is
\* running and the transcript is empty.
C32_EngineeringOnlyWhileRunning ==
    isEngineering => (status = "running" /\ history = << >>)

\* C33: when the call of a turn raises, the loop sets the status to idle and
\* clears isRunningRef, sets no verdict, leaves the transcript and the turn
\* counter as they were, has invoked no synthesis, and does nothing more.
C33_ExceptionPath ==
    [][\A p \in Runs :
        /\ (Fired(p) /\ runs[p].pc = "turn" /\ runs'[p].pc = "failed") =>
               /\ status' = "idle"
               /\ ~isRunningRef'
               /\ verdict' = verdict
               /\ history' = history
               /\ currentHistoryRef' = currentHistoryRef
               /\ turnCountRef' = turnCountRef
               /\ runs'[p].synthCalls = 0
        /\ (runs[p].pc = "failed" /\ p \in DOMAIN runs') =>
               /\ runs'[p].pc \in { "failed", "archived" }
               /\ runs'[p].synthCalls = 0
      ]_vars

\* the third turn of a session raised: two entries are kept, no verdict
C33_Witness ==
    \E p \in Runs :
        /\ runs[p].pc = "failed"
        /\ ~Superseded(p)
        /\ status = "idle"
        /\ ~isRunningRef
        /\ verdict = None
        /\ Len(history) = 2
        /\ currentHistoryRef = history
        /\ turnCountRef = 2

\* C34: a session keeps the council size in force when it was started: a
\* change of the council size changes nothing of a session, and the loop
\* tests its turn cap and selects its agent with the size it started with, so
\* the agent selected is within the roster slice taken at the start.
C34_CouncilSizeChangeLeavesSession ==
    [][/\ Len(runs') > Len(runs) => runs'[Len(runs')].instanceCount = instanceCount
       /\ instanceCount' # instanceCount => UNCHANGED << runs, turnCountRef,
                                                        currentHistoryRef, status >>
       /\ \A p \in Runs :
             /\ runs'[p].instanceCount = runs[p].instanceCount
             /\ (Fired(p) /\ runs[p].pc \in { "engineering", "delay" }) =>
                   IF turnCountRef < TurnCap(runs[p].instanceCount)
                   THEN /\ runs'[p].pc = "turn"
                        /\ runs'[p].instance = (turnCountRef % runs[p].instanceCount) + 1
                        /\ runs'[p].instance \in 1..runs[p].instanceCount
                   ELSE runs'[p].pc = "synthesis"
      ]_vars

\* a session started with a council of 6 is at the turn of its fourth agent
\* after the council size was set to 2
C34_Witness ==
    \E p \in Runs :
        /\ runs[p].pc = "turn"
        /\ ~Superseded(p)
        /\ runs[p].instanceCount = DefaultInstanceCount
        /\ instanceCount = MinInstanceCount
        /\ runs[p].instance = 4
        /\ activeInstanceId = InstanceId(4)

=============================================================================
